---- MODULE Spec2Model ----
(***************************************************************************)
(* Model of src/dh.py: the bounded aggregator (DashboardData), the         *)
(* observer registry (ConnectionManager), the per-observer push task       *)
(* (websocket_endpoint) and the polling task (poll_detection_api).         *)
(*                                                                         *)
(* All tasks run on one asyncio event loop: a task gives up control only   *)
(* at an await that really suspends (websocket accept, websocket send,     *)
(* asyncio.sleep).  requests.get is a blocking call, so the code between   *)
(* two such awaits is one atomic action here.                              *)
(***************************************************************************)
EXTENDS Integers, Sequences, FiniteSets, TLC

\* ------------------------------------------------------------------ bounds
NumObservers == 2        \* websockets that ever connect
MaxCandidates == 2       \* longest "recent" list the detection API returns
MaxPolls == 1            \* poll cycles whose response is a 200 with a list
MaxNow == 1              \* the latest instant datetime.now() returns
MaxRingAdds == 1003      \* add_anomaly calls driven into anomaly_history
MaxTrafficAdds == 103    \* add_traffic_data calls driven into traffic_stats

\* ------------------------------------------------------- program constants
ANOMALY_MAXLEN == 1000   \* deque(maxlen=1000)
TRAFFIC_MAXLEN == 100    \* deque(maxlen=100)
MOCK_TOTAL == 100        \* len(recent_anomalies) + 100
ANOMALY_RESULT == -1     \* a.get('result') == -1

Observers == 1..NumObservers

\* Instants datetime.now() can return, in minutes.
Instants == 0..MaxNow

\* ------------------------------------------------------------ list helpers
Range(s) == {s[k] : k \in 1..Len(s)}

\* list.remove(x): drops the first occurrence of x (callers check presence)
ListRemove(s, x) ==
    LET k == CHOOSE n \in 1..Len(s) : s[n] = x /\ \A m \in 1..(n-1) : s[m] # x
    IN  SubSeq(s, 1, k-1) \o SubSeq(s, k+1, Len(s))

\* deque(maxlen=n).append(x) without the bound: nothing is ever discarded
DequeAppendUnbounded(d, x, maxlen) == Append(d, x)

\* deque(maxlen=n).append(x) that refuses the new item when full
DequeAppendKeepOldest(d, x, maxlen) ==
    IF Len(d) >= maxlen THEN d ELSE Append(d, x)

\* deque(maxlen=n).append(x): a full deque discards its leftmost item
DequeAppend(d, x, maxlen) ==
    IF Len(d) >= maxlen THEN Append(Tail(d), x) ELSE Append(d, x)

\* ------------------------------------------------------------- time helpers
\* datetime.isoformat(): the instant as <<hours, minutes>>
isoformat(t) == <<t \div 60, t % 60>>

\* datetime.fromisoformat()
fromisoformat(s) == s[1] * 60 + s[2]

HourLabels == <<"00:00", "01:00", "02:00", "03:00", "04:00", "05:00",
                "06:00", "07:00", "08:00", "09:00", "10:00", "11:00",
                "12:00", "13:00", "14:00", "15:00", "16:00", "17:00",
                "18:00", "19:00", "20:00", "21:00", "22:00", "23:00">>

\* datetime.now().strftime('%H:00')
strftime_hour(t) == HourLabels[((t \div 60) % 24) + 1]

\* ------------------------------------------------------------ JSON values
\* A JSON object is a function from its keys to its values.  A candidate
\* that is not an object (a string, a number, null) is NotADict.  A value
\* that decodes to a Python list (unhashable) is written "[list]".
NotADict == [json |-> "string"]
IsDict(c) == "json" \notin DOMAIN c
UnhashableValues == {"[list]"}
Hashable(v) == v \notin UnhashableValues

\* dict.get(key, default)
DictGet(d, key, default) == IF key \in DOMAIN d THEN d[key] ELSE default

recA == [src_ip |-> "1.2.3.4", dst_ip |-> "5.6.7.8", protocol |-> "TCP",
         score |-> 9, result |-> -1]
recB == [src_ip |-> "9.9.9.9", dst_ip |-> "5.6.7.8", protocol |-> "UDP",
         score |-> 1, result |-> 1]
\* a record that arrives already carrying a "timestamp" key
recStamped == [src_ip |-> "1.2.3.4", dst_ip |-> "5.6.7.8", protocol |-> "TCP",
               score |-> 9, result |-> -1, timestamp |-> isoformat(0)]
\* a record whose src_ip is a JSON array
recListIp == [src_ip |-> "[list]", dst_ip |-> "5.6.7.8", protocol |-> "TCP",
              score |-> 9, result |-> -1]

Candidates == {recA, recB, recStamped, recListIp, NotADict}

RECURSIVE SeqsUpTo(_, _)
SeqsUpTo(S, n) ==
    IF n = 0 THEN {<<>>}
    ELSE LET shorter == SeqsUpTo(S, n - 1)
         IN  shorter \cup {Append(s, x) : s \in {q \in shorter : Len(q) = n - 1}, x \in S}

\* Outcomes of requests.get(...)/response.json()/data.get("recent", [])
FetchFailures == {"timeout", "transport", "status", "badjson", "notdict", "recentnull"}
Responses ==
    [kind : FetchFailures, recent : {<<>>}]
    \cup [kind : {"ok"}, recent : SeqsUpTo(Candidates, MaxCandidates)]

VARIABLES
    active_connections,  \* ConnectionManager.active_connections (a list)
    anomaly_history,     \* DashboardData.anomaly_history
    traffic_stats,       \* DashboardData.traffic_stats
    ip_stats,            \* DashboardData.ip_stats
    ip_order,            \* the keys of ip_stats in the order of their insertion
    protocol_stats,      \* DashboardData.protocol_stats
    hourly_stats,        \* DashboardData.hourly_stats
    now,                 \* what datetime.now() returned last
    broken,              \* broken[o]: the peer of websocket o has gone away
    opc,                 \* opc[o]: where websocket_endpoint(o) is
    oerr,                \* oerr[o]: exception that left websocket_endpoint(o)
    ppc,                 \* where poll_detection_api is
    recent_anomalies,    \* the poller's list of candidates for this cycle
    pi,                  \* index of the candidate being broadcast
    bcopy,               \* broadcast: self.active_connections.copy()
    bj,                  \* broadcast: index into bcopy of the send in flight
    bmsg,                \* broadcast: the message being sent
    btrace,              \* history: what the broadcast in flight has done
    lastB,               \* history: the last broadcast of this cycle that ended
    polls,               \* history: number of 200 responses so far
    add_log,             \* history: every event add_anomaly appended
    traffic_log,         \* history: every sample add_traffic_data appended
    cycle                \* history: the current poll cycle

vars == <<active_connections, anomaly_history, traffic_stats, ip_stats,
          ip_order, protocol_stats, hourly_stats, now, broken, opc, oerr, ppc,
          recent_anomalies, pi, bcopy, bj, bmsg, btrace, lastB, polls,
          add_log, traffic_log, cycle>>

aggvars == <<anomaly_history, traffic_stats, ip_stats, ip_order, protocol_stats,
             hourly_stats>>
obsvars == <<broken, opc, oerr>>
pollvars == <<ppc, recent_anomalies, pi, bcopy, bj, bmsg, btrace, lastB, polls, cycle>>


\* ------------------------------------------------------------- DashboardData
\* The aggregator's fields as one value, for the operators below.
Agg == [anomaly_history |-> anomaly_history, traffic_stats |-> traffic_stats,
        ip_stats |-> ip_stats, ip_order |-> ip_order,
        protocol_stats |-> protocol_stats, hourly_stats |-> hourly_stats]

\* DashboardData.__init__
EmptyAgg == [anomaly_history |-> <<>>, traffic_stats |-> <<>>,
             ip_stats |-> <<>>, ip_order |-> <<>>, protocol_stats |-> <<>>,
             hourly_stats |-> <<>>]

\* anomaly_data['timestamp'] = datetime.now().isoformat()
Stamp(d, t) ==
    [k \in DOMAIN d \cup {"timestamp"} |->
        IF k = "timestamp" THEN isoformat(t) ELSE d[k]]

\* a counter table that keeps only the key counted last
IncrForgets(f, k) ==
    [x \in {k} |-> (IF k \in DOMAIN f THEN f[k] ELSE 0) + 1]

\* defaultdict(int)[k] += 1
Incr(f, k) ==
    [x \in DOMAIN f \cup {k} |->
        IF x = k THEN (IF k \in DOMAIN f THEN f[k] ELSE 0) + 1 ELSE f[x]]

\* a dict keeps its keys in insertion order: a new key goes last
KeyOrder(order, k) == IF k \in Range(order) THEN order ELSE Append(order, k)

\* ip_stats[src_ip]['count'] += 1; ip_stats[src_ip]['last_seen'] = now
IpSeen(f, ip, t) ==
    [x \in DOMAIN f \cup {ip} |->
        IF x = ip
        THEN [count |-> (IF ip \in DOMAIN f THEN f[ip].count ELSE 0) + 1,
              last_seen |-> isoformat(t)]
        ELSE f[x]]

\* DashboardData.add_anomaly.  raised: a TypeError left the method;
\* stored: the events the call appended to anomaly_history.
add_anomaly(agg, anomaly_data, t) ==
    IF ~IsDict(anomaly_data)
    THEN [agg |-> agg, raised |-> TRUE, stored |-> <<>>]
    ELSE
      LET stamped == Stamp(anomaly_data, t)
          a1 == [agg EXCEPT !.anomaly_history =
                                DequeAppend(@, stamped, ANOMALY_MAXLEN)]
          src_ip == DictGet(stamped, "src_ip", "Unknown")
          protocol == DictGet(stamped, "protocol", "Unknown")
      IN  IF ~Hashable(src_ip)
          THEN [agg |-> a1, raised |-> TRUE, stored |-> <<stamped>>]
          ELSE
            LET a2 == [a1 EXCEPT !.ip_stats = IpSeen(@, src_ip, t),
                                 !.ip_order = KeyOrder(@, src_ip)]
            IN  IF ~Hashable(protocol)
                THEN [agg |-> a2, raised |-> TRUE, stored |-> <<stamped>>]
                ELSE [agg |-> [a2 EXCEPT
                                 !.protocol_stats = Incr(@, protocol),
                                 !.hourly_stats = Incr(@, strftime_hour(t))],
                      raised |-> FALSE, stored |-> <<stamped>>]

\* the sample add_traffic_data builds
TrafficSample(total_requests, anomaly_count, t) ==
    [timestamp |-> isoformat(t), total_requests |-> total_requests,
     anomaly_count |-> anomaly_count,
     normal_count |-> total_requests - anomaly_count]

\* DashboardData.add_traffic_data
add_traffic_data(agg, total_requests, anomaly_count, t) ==
    [agg EXCEPT !.traffic_stats =
        DequeAppend(@, TrafficSample(total_requests, anomaly_count, t),
                    TRAFFIC_MAXLEN)]

\* ------------------------------------------------------------ read surface
HOUR == 60               \* timedelta(hours=1), in minutes
TOP_IPS == 10            \* sorted(...)[:10]
TREND_LEN == 24          \* list(self.traffic_stats)[-24:]
RECENT_LEN == 20         \* list(self.anomaly_history)[-20:]

\* where Python puts a slice bound i in a list of length n
SliceBound(n, i) ==
    IF i < 0 THEN (IF n + i < 0 THEN 0 ELSE n + i)
    ELSE (IF i > n THEN n ELSE i)

\* s[i:]
SliceFrom(s, i) == SubSeq(s, SliceBound(Len(s), i) + 1, Len(s))

\* s[:i]
SliceTo(s, i) == SubSeq(s, 1, SliceBound(Len(s), i))

\* where an ascending sort (reverse=True forgotten) puts an item with count c
InsertAscending(sorted, c) ==
    Cardinality({k \in DOMAIN sorted : sorted[k].count <= c})

\* where a stable descending sort puts an item with count c in a list that
\* is sorted already: after the items whose count is at least c
InsertAt(sorted, c) ==
    Cardinality({k \in DOMAIN sorted : sorted[k].count >= c})

\* sorted(items, key=lambda x: x[1], reverse=True): stable, so items of
\* equal count keep the order they have in items
RECURSIVE SortedByCount(_)
SortedByCount(items) ==
    IF items = <<>> THEN <<>>
    ELSE LET front == SortedByCount(SubSeq(items, 1, Len(items) - 1))
             x == items[Len(items)]
             k == InsertAt(front, x.count)
         IN  SubSeq(front, 1, k) \o <<x>> \o SubSeq(front, k + 1, Len(front))

\* [(ip, data['count'], data['last_seen']) for ip, data in ip_stats.items()]
IpItems(agg) ==
    [k \in DOMAIN agg.ip_order |->
        [ip |-> agg.ip_order[k], count |-> agg.ip_stats[agg.ip_order[k]].count,
         last_seen |-> agg.ip_stats[agg.ip_order[k]].last_seen]]

\* get_top_ips(limit)
get_top_ips(agg, limit) == SliceTo(SortedByCount(IpItems(agg)), limit)

\* the filter of get_dashboard_stats with >= in place of >
IsRecentInclusive(a, t) == fromisoformat(a["timestamp"]) >= t - HOUR

\* datetime.fromisoformat(a['timestamp']) > last_hour
IsRecent(a, t) == fromisoformat(a["timestamp"]) > t - HOUR

\* get_recent_anomalies(limit): list(anomaly_history)[-limit:]
get_recent_anomalies(agg, limit) == SliceFrom(agg.anomaly_history, -limit)

\* DashboardData.get_dashboard_stats, called when datetime.now() is t
get_dashboard_stats(agg, t) ==
    LET recent == SelectSeq(agg.anomaly_history, LAMBDA a : IsRecent(a, t))
        top == SliceTo(SortedByCount(IpItems(agg)), TOP_IPS)
    IN  [total_anomalies |-> Len(agg.anomaly_history),
         recent_anomalies_count |-> Len(recent),
         top_attacking_ips |-> [k \in DOMAIN top |-> <<top[k].ip, top[k].count>>],
         protocol_distribution |-> agg.protocol_stats,
         traffic_trend |-> SliceFrom(agg.traffic_stats, -TREND_LEN),
         recent_anomalies |-> SliceFrom(agg.anomaly_history, -RECENT_LEN),
         hourly_distribution |-> agg.hourly_stats]

\* --------------------------------------------------------- ConnectionManager
\* ConnectionManager.disconnect: list.remove raises ValueError when the
\* websocket is not in the list.
disconnect(conns, ws) ==
    IF ws \in Range(conns)
    THEN [conns |-> ListRemove(conns, ws), raised |-> FALSE]
    ELSE [conns |-> conns, raised |-> TRUE]

NoMsg == [type |-> "none"]
NoTrace == [live0 |-> <<>>, delivered |-> <<>>, failed |-> {},
            interfered |-> FALSE]
NoBroadcast == [ended |-> FALSE, copy |-> <<>>, live0 |-> <<>>, delivered |-> <<>>,
                failed |-> {}, interfered |-> FALSE, raised |-> FALSE,
                live_after |-> <<>>]

\* the body of the for-loop in ConnectionManager.broadcast, once the send to
\* `connection` has returned (send_ok) or raised: the except clause removes
\* the connection, and list.remove raises ValueError when it is not there.
broadcast_send(conns, connection, send_ok) ==
    IF send_ok THEN [conns |-> conns, raised |-> FALSE]
    ELSE IF connection \in Range(conns)
         THEN [conns |-> ListRemove(conns, connection), raised |-> FALSE]
         ELSE [conns |-> conns, raised |-> TRUE]

\* ------------------------------------------------------- poll_detection_api
\* what requests.get / response.json / data.get raise for a response
FetchException(kind) ==
    CASE kind = "timeout" -> "Timeout"
      [] kind = "transport" -> "ConnectionError"
      [] kind = "badjson" -> "JSONDecodeError"
      [] kind = "notdict" -> "AttributeError"
      [] kind = "recentnull" -> "TypeError"
      [] OTHER -> "none"

\* an except clause that names only the request's own errors
CatchesRequestErrors(exc) == exc \in {"Timeout", "ConnectionError"}

\* except Exception as e: every exception raised in the cycle is caught
PollerCatches(exc) == TRUE

\* where the poller goes when exc is raised inside its try block
except_clause(exc) == IF PollerCatches(exc) THEN "sleep" ELSE "dead"

\* a count that takes every candidate for an anomaly
AnomalyCountAll(recent) == Len(recent)

\* len([a for a in recent_anomalies if a.get('result') == -1])
AnomalyCount(recent) ==
    Cardinality({k \in 1..Len(recent) :
                    DictGet(recent[k], "result", 0) = ANOMALY_RESULT})

\* a poller that goes on to broadcast without recording the anomaly
skip_record(agg, anomaly, t) == [agg |-> agg, raised |-> FALSE, stored |-> <<>>]

\* the poller calls add_anomaly before it broadcasts
record_anomaly(agg, anomaly, t) == add_anomaly(agg, anomaly, t)

\* The for-loop of poll_detection_api from candidate i on, up to the next
\* await that suspends: the first send of a broadcast (ppc = "send"), or the
\* sleep, reached after add_traffic_data or from the except clause.
RECURSIVE process_anomalies(_, _, _, _, _, _)
process_anomalies(agg, conns, recent, i, t, added) ==
    IF i > Len(recent)
    THEN LET total_requests == Len(recent) + MOCK_TOTAL
             anomaly_count == AnomalyCount(recent)
         IN  [agg |-> add_traffic_data(agg, total_requests, anomaly_count, t),
              ppc |-> "sleep", recent |-> recent, pi |-> 0, bcopy |-> <<>>,
              bj |-> 0, bmsg |-> NoMsg, added |-> added,
              traffic |-> <<TrafficSample(total_requests, anomaly_count, t)>>,
              exc |-> "none"]
    ELSE
      LET anomaly == recent[i] IN
      IF anomaly \in Range(agg.anomaly_history)
      THEN process_anomalies(agg, conns, recent, i + 1, t, added)
      ELSE
        LET r == record_anomaly(agg, anomaly, t)
            recent2 == IF r.stored = <<>> THEN recent
                       ELSE [recent EXCEPT ![i] = r.stored[1]]
        IN  IF r.raised
            THEN [agg |-> r.agg, ppc |-> "except", recent |-> recent2,
                  pi |-> 0, bcopy |-> <<>>, bj |-> 0, bmsg |-> NoMsg,
                  added |-> added \o r.stored, traffic |-> <<>>,
                  exc |-> "TypeError"]
            ELSE IF conns = <<>>
            THEN process_anomalies(r.agg, conns, recent2, i + 1, t,
                                   added \o r.stored)
            ELSE [agg |-> r.agg, ppc |-> "send", recent |-> recent2,
                  pi |-> i, bcopy |-> conns, bj |-> 1,
                  bmsg |-> [type |-> "new_anomaly", data |-> recent2[i]],
                  added |-> added \o r.stored, traffic |-> <<>>,
                  exc |-> "none"]


\* ----------------------------------------------------------------- actions
NoCycle == [agg0 |-> EmptyAgg, recent0 |-> <<>>, failed |-> FALSE,
            notified |-> FALSE]

Init ==
    /\ active_connections = <<>>
    /\ anomaly_history = <<>>
    /\ traffic_stats = <<>>
    /\ ip_stats = <<>>
    /\ ip_order = <<>>
    /\ protocol_stats = <<>>
    /\ hourly_stats = <<>>
    /\ now = 0
    /\ broken = [o \in Observers |-> FALSE]
    /\ opc = [o \in Observers |-> "new"]
    /\ oerr = [o \in Observers |-> "none"]
    /\ ppc = "request"
    /\ recent_anomalies = <<>>
    /\ pi = 0
    /\ bcopy = <<>>
    /\ bj = 0
    /\ bmsg = NoMsg
    /\ btrace = NoTrace
    /\ lastB = NoBroadcast
    /\ polls = 0
    /\ add_log = <<>>
    /\ traffic_log = <<>>
    /\ cycle = NoCycle

SetAgg(agg) ==
    /\ anomaly_history' = agg.anomaly_history
    /\ traffic_stats' = agg.traffic_stats
    /\ ip_stats' = agg.ip_stats
    /\ ip_order' = agg.ip_order
    /\ protocol_stats' = agg.protocol_stats
    /\ hourly_stats' = agg.hourly_stats

\* the poller's variables after a run of process_anomalies (the candidate
\* list is dead once the cycle is over)
SetPoller(r) ==
    /\ SetAgg(r.agg)
    /\ ppc' = IF r.exc = "none" THEN r.ppc ELSE except_clause(r.exc)
    /\ recent_anomalies' = IF r.ppc = "send" THEN r.recent ELSE <<>>
    /\ pi' = r.pi
    /\ bcopy' = r.bcopy
    /\ bj' = r.bj
    /\ bmsg' = r.bmsg
    /\ add_log' = add_log \o r.added
    /\ traffic_log' = traffic_log \o r.traffic

\* poll_detection_api, from the top of the while loop to its first await;
\* t is what datetime.now() returns during the step
PollRequest ==
    /\ ppc = "request"
    /\ \E resp \in Responses, t \in Instants :
         /\ t >= now
         /\ resp.kind = "ok" => polls < MaxPolls
         /\ LET r == IF resp.kind = "ok"
                     THEN process_anomalies(Agg, active_connections,
                                            resp.recent, 1, t, <<>>)
                     ELSE [agg |-> Agg,
                           ppc |-> IF resp.kind = "status" THEN "sleep"
                                   ELSE "except",
                           recent |-> <<>>, pi |-> 0, bcopy |-> <<>>,
                           bj |-> 0, bmsg |-> NoMsg, added |-> <<>>,
                           traffic |-> <<>>,
                           exc |-> FetchException(resp.kind)]
            IN  /\ SetPoller(r)
                /\ now' = IF resp.kind = "ok" THEN t ELSE now
                /\ polls' = IF resp.kind = "ok" THEN polls + 1 ELSE polls
                /\ btrace' = IF r.ppc = "send"
                             THEN [NoTrace EXCEPT !.live0 = active_connections]
                             ELSE NoTrace
                /\ cycle' = [agg0 |-> Agg, recent0 |-> resp.recent,
                             failed |-> resp.kind # "ok" \/ r.exc # "none",
                             notified |-> FALSE]
    /\ UNCHANGED <<active_connections, obsvars, lastB>>

\* the broadcast that has just ended
Ended(tr, raised, live_after) ==
    [ended |-> TRUE, copy |-> bcopy, live0 |-> tr.live0,
     delivered |-> tr.delivered, failed |-> tr.failed,
     interfered |-> tr.interfered, raised |-> raised,
     live_after |-> live_after]

\* ConnectionManager.broadcast: the send to bcopy[bj] returns or raises, and
\* the poller runs on to its next await.  The clock is read (t) only when the
\* broadcast returns and the for-loop of the poller goes on.
PollSend ==
    /\ ppc = "send"
    /\ \E send_ok \in BOOLEAN, t \in Instants :
         /\ t >= now
         /\ broken[bcopy[bj]] => ~send_ok
         /\ LET connection == bcopy[bj]
                s == broadcast_send(active_connections, connection, send_ok)
                tr == [btrace EXCEPT
                         !.delivered = IF send_ok THEN Append(@, connection)
                                       ELSE @,
                         !.failed = IF send_ok THEN @ ELSE @ \cup {connection}]
                sent == [cycle EXCEPT !.notified = @ \/ send_ok]
            IN  /\ broken' = [broken EXCEPT ![connection] = @ \/ ~send_ok]
                /\ IF s.raised
                   THEN /\ ppc' = except_clause("ValueError")
                        /\ lastB' = Ended(tr, TRUE, active_connections)
                        /\ cycle' = [sent EXCEPT !.failed = TRUE]
                        /\ btrace' = NoTrace
                        /\ recent_anomalies' = <<>>
                        /\ pi' = 0 /\ bcopy' = <<>> /\ bj' = 0 /\ bmsg' = NoMsg
                        /\ t = now
                        /\ UNCHANGED <<active_connections, aggvars, now,
                                       add_log, traffic_log>>
                   ELSE IF bj < Len(bcopy)
                   THEN /\ bj' = bj + 1
                        /\ active_connections' = s.conns
                        /\ btrace' = tr
                        /\ cycle' = sent
                        /\ t = now
                        /\ UNCHANGED <<aggvars, now, ppc, recent_anomalies, pi,
                                       bcopy, bmsg, lastB, add_log,
                                       traffic_log>>
                   ELSE LET r == process_anomalies(Agg, s.conns,
                                     recent_anomalies, pi + 1, t, <<>>)
                        IN  /\ SetPoller(r)
                            /\ now' = t
                            /\ active_connections' = s.conns
                            /\ lastB' = Ended(tr, FALSE, s.conns)
                            /\ btrace' = IF r.ppc = "send"
                                         THEN [NoTrace EXCEPT !.live0 = s.conns]
                                         ELSE NoTrace
                            /\ cycle' = [sent EXCEPT
                                           !.failed = @ \/ r.exc # "none"]
    /\ UNCHANGED <<opc, oerr, polls>>

\* await asyncio.sleep(10) returns and the while loop starts over
PollWake ==
    /\ ppc = "sleep"
    /\ ppc' = "request"
    /\ lastB' = NoBroadcast
    /\ cycle' = NoCycle
    /\ UNCHANGED <<active_connections, aggvars, now, obsvars, recent_anomalies,
                   pi, bcopy, bj, bmsg, btrace, polls, add_log, traffic_log>>

\* another task changed active_connections while a broadcast is suspended
Interfere == IF ppc = "send" THEN [btrace EXCEPT !.interfered = TRUE] ELSE btrace

\* exceptions websocket.send_text raises once the peer has gone away
SendErrors == {"WebSocketDisconnect", "RuntimeError"}

\* websocket_endpoint: manager.connect (the accept returns or raises, the
\* websocket is appended), the first snapshot is taken and its send begins.
\* Websockets are interchangeable, so they are numbered in the order in which
\* their handshakes complete.
WsConnect(o) ==
    /\ opc[o] = "new"
    /\ \A p \in Observers : p < o => opc[p] # "new"
    /\ \E accept_ok \in BOOLEAN :
         IF ~accept_ok
         THEN /\ opc' = [opc EXCEPT ![o] = "crashed"]
              /\ oerr' = [oerr EXCEPT ![o] = "AcceptError"]
              /\ broken' = [broken EXCEPT ![o] = TRUE]
              /\ UNCHANGED <<active_connections, btrace>>
         ELSE /\ active_connections' = Append(active_connections, o)
              /\ opc' = [opc EXCEPT ![o] = "sending"]
              /\ btrace' = Interfere
              /\ UNCHANGED <<oerr, broken>>
    /\ UNCHANGED <<aggvars, now, ppc, recent_anomalies, pi, bcopy, bj,
                   bmsg, lastB, polls, add_log, traffic_log, cycle>>

\* the except WebSocketDisconnect clause of websocket_endpoint, for an
\* exception exc raised by the send of a stats_update
push_except(conns, o, exc) ==
    IF exc = "WebSocketDisconnect"
    THEN LET d == disconnect(conns, o)
         IN  IF d.raised
             THEN [conns |-> conns, opc |-> "crashed", oerr |-> "ValueError"]
             ELSE [conns |-> d.conns, opc |-> "closed", oerr |-> "none"]
    ELSE [conns |-> conns, opc |-> "crashed", oerr |-> exc]

\* websocket_endpoint: the send of a stats_update returns or raises
WsSendDone(o) ==
    /\ opc[o] = "sending"
    /\ \E outcome \in {"ok"} \cup SendErrors :
         /\ broken[o] => outcome # "ok"
         /\ IF outcome = "ok"
            THEN /\ opc' = [opc EXCEPT ![o] = "sleeping"]
                 /\ UNCHANGED <<active_connections, oerr, btrace, broken>>
            ELSE LET x == push_except(active_connections, o, outcome)
                 IN  /\ opc' = [opc EXCEPT ![o] = x.opc]
                     /\ oerr' = [oerr EXCEPT ![o] = x.oerr]
                     /\ active_connections' = x.conns
                     /\ broken' = [broken EXCEPT ![o] = TRUE]
                     /\ btrace' = IF x.conns # active_connections
                                  THEN Interfere ELSE btrace
    /\ UNCHANGED <<aggvars, now, ppc, recent_anomalies, pi, bcopy, bj,
                   bmsg, lastB, polls, add_log, traffic_log, cycle>>

\* websocket_endpoint: asyncio.sleep(5) returns, the next snapshot is taken
\* and its send begins
WsWake(o) ==
    /\ opc[o] = "sleeping"
    /\ opc' = [opc EXCEPT ![o] = "sending"]
    /\ UNCHANGED <<active_connections, aggvars, now, broken, oerr, pollvars,
                   add_log, traffic_log>>

Next ==
    \/ PollRequest
    \/ PollSend
    \/ PollWake
    \/ \E o \in Observers : WsConnect(o)
    \/ \E o \in Observers : WsSendDone(o)
    \/ \E o \in Observers : WsWake(o)

Spec == Init /\ [][Next]_vars


\* --------------------------------------------- the bounded histories alone
\* the n-th event driven into add_anomaly: all events are distinct
RingEvent(n) == [(IF n % 2 = 0 THEN recA ELSE recB) EXCEPT !.score = n]

\* one call of DashboardData.add_anomaly
RingAddAnomaly ==
    /\ Len(add_log) < MaxRingAdds
    /\ LET r == add_anomaly(Agg, RingEvent(Len(add_log) + 1), now)
       IN  /\ SetAgg(r.agg)
           /\ add_log' = add_log \o r.stored
    /\ UNCHANGED <<active_connections, now, obsvars, pollvars, traffic_log>>

AnomalyRingSpec == Init /\ [][RingAddAnomaly]_vars

\* one call of DashboardData.add_traffic_data
RingAddTraffic ==
    /\ Len(traffic_log) < MaxTrafficAdds
    /\ LET n == Len(traffic_log)
           total_requests == n + MOCK_TOTAL
           anomaly_count == n % 3
       IN  /\ SetAgg(add_traffic_data(Agg, total_requests, anomaly_count, now))
           /\ traffic_log' = Append(traffic_log,
                                TrafficSample(total_requests, anomaly_count, now))
    /\ UNCHANGED <<active_connections, now, obsvars, pollvars, add_log>>

TrafficRingSpec == Init /\ [][RingAddTraffic]_vars

\* ----------------------------------------------------------------- fairness
\* The event loop runs every task that is ready, and a request, a send and a
\* sleep all return or raise: the poller is never left waiting forever.
PollerNext == PollRequest \/ PollSend \/ PollWake
FairSpec == Spec /\ WF_vars(PollerNext)

\* ------------------------------------------------------------------ claims
Min(a, b) == IF a < b THEN a ELSE b

\* the last n items of a sequence
LastN(s, n) == SubSeq(s, Len(s) - Min(n, Len(s)) + 1, Len(s))

\* the fields of a record that the detection API provides
SourceKeys == {"src_ip", "dst_ip", "protocol", "score", "result"}
SourceFields(e) == [k \in DOMAIN e \cap SourceKeys |-> e[k]]

\* C1: when a poll cycle that completed was fed the same record twice,
\* anomaly_history holds exactly one event with that record's source fields.
DedupIdempotence ==
    (ppc = "sleep" /\ ~cycle.failed) =>
        \A i, j \in DOMAIN cycle.recent0 :
            (i < j /\ cycle.recent0[i] = cycle.recent0[j]) =>
                Cardinality({k \in DOMAIN anomaly_history :
                    SourceFields(anomaly_history[k])
                        = SourceFields(cycle.recent0[i])}) = 1

\* C2: a broadcast that has ended did not raise, delivered the message exactly
\* once to every observer of its copy whose send did not fail, left no
\* observer whose send failed in the live set, and the next broadcast does
\* not send to an observer whose send failed.
BroadcastIsolation ==
    lastB.ended =>
        /\ ~lastB.raised
        /\ \A o \in Range(lastB.copy) \ lastB.failed :
              Cardinality({k \in DOMAIN lastB.delivered :
                              lastB.delivered[k] = o}) = 1
        /\ lastB.failed \cap Range(lastB.live_after) = {}
        /\ ppc = "send" => lastB.failed \cap Range(bcopy) = {}

\* C3: a broadcast during which another task connected or disconnected an
\* observer ends without raising and has attempted every observer of its copy.
BroadcastSurvivesInterference ==
    (lastB.ended /\ lastB.interfered) =>
        /\ ~lastB.raised
        /\ Range(lastB.delivered) \cup lastB.failed = Range(lastB.copy)

\* C4: disconnect never raises: no ValueError leaves a push task that
\* disconnects an observer that is no longer in the live set.
DisconnectIdempotent == \A o \in Observers : oerr[o] # "ValueError"

\* C5: after n add_anomaly calls anomaly_history is the last min(n, 1000)
\* inserted events, in insertion order.
BoundedAnomalyHistory ==
    /\ Len(anomaly_history) = Min(Len(add_log), ANOMALY_MAXLEN)
    /\ anomaly_history = LastN(add_log, ANOMALY_MAXLEN)

\* C5 witness: more than 1000 events were inserted, the oldest were evicted
AnomalyEvicted ==
    /\ Len(add_log) = ANOMALY_MAXLEN + 2
    /\ Len(anomaly_history) = ANOMALY_MAXLEN
    /\ anomaly_history[1] = add_log[3]

\* C6: after n add_traffic_data calls traffic_stats is the most recent
\* min(n, 100) samples, in insertion order.
BoundedTrafficHistory ==
    /\ Len(traffic_stats) = Min(Len(traffic_log), TRAFFIC_MAXLEN)
    /\ traffic_stats = LastN(traffic_log, TRAFFIC_MAXLEN)

\* C6 witness: more than 100 samples were inserted, the oldest were evicted
TrafficEvicted ==
    /\ Len(traffic_log) = TRAFFIC_MAXLEN + 2
    /\ Len(traffic_stats) = TRAFFIC_MAXLEN
    /\ traffic_stats[1] = traffic_log[3]

\* C7: whenever a new_anomaly message is being sent to an observer, its event
\* is already in anomaly_history.
WriteThenNotify ==
    ppc = "send" =>
        /\ bmsg.type = "new_anomaly"
        /\ bmsg.data \in Range(anomaly_history)

\* C7 witness: a new_anomaly message has reached one observer and is being
\* sent to the next
NotifyInFlight ==
    /\ ppc = "send"
    /\ bmsg.type = "new_anomaly"
    /\ Len(btrace.delivered) >= 1

\* C8: under fair scheduling the poller starts cycles infinitely often,
\* whatever fails inside a cycle.
PollerNeverStops == []<><<PollRequest>>_vars

\* C8 witness: an error raised while broadcasting was caught and the poller
\* has reached its delay
PollerSurvivedBroadcastError ==
    /\ ppc = "sleep"
    /\ cycle.failed
    /\ lastB.ended /\ lastB.raised
    /\ Len(add_log) >= 1

\* C9: a poll cycle in which anything failed leaves the aggregator as it was
\* when the cycle began and sends no new_anomaly message.
FailedCycleSkipped ==
    (ppc = "sleep" /\ cycle.failed) =>
        /\ Agg = cycle.agg0
        /\ ~cycle.notified

\* C10: once the send of a stats_update has failed, the observer is out of
\* the live set and no exception has left its push task.
PushFailureDisconnects ==
    \A o \in Observers :
        (opc[o] \in {"closed", "crashed"} /\ oerr[o] # "AcceptError") =>
            /\ o \notin Range(active_connections)
            /\ oerr[o] = "none"

\* C11: once an observer is out of the live set, no step begins a send to it:
\* its push task does not wake into a stats_update send, and no broadcast
\* begins a new_anomaly send to it.
NoSendAfterRemoval ==
    [][ /\ \A o \in Observers :
             (opc[o] = "sleeping" /\ o \notin Range(active_connections))
                 => opc'[o] # "sending"
        /\ (ppc' = "send" /\ (ppc # "send" \/ <<pi, bj>> # <<pi', bj'>>))
                 => bcopy'[bj'] \in Range(active_connections)
      ]_vars

\* ------------------------------------------- add_traffic_data called directly
MaxTrafficCalls == 3     \* direct calls of add_traffic_data
MaxSampleArg == 3        \* largest argument passed to add_traffic_data
SampleArgs == 0..MaxSampleArg

\* one call add_traffic_data(total_requests, anomaly_count), any arguments
CallAddTraffic ==
    /\ Len(traffic_log) < MaxTrafficCalls
    /\ \E total_requests \in SampleArgs, anomaly_count \in SampleArgs :
         /\ SetAgg(add_traffic_data(Agg, total_requests, anomaly_count, now))
         /\ traffic_log' = Append(traffic_log,
                              TrafficSample(total_requests, anomaly_count, now))
    /\ UNCHANGED <<active_connections, now, obsvars, pollvars, add_log>>

TrafficCallSpec == Init /\ [][CallAddTraffic]_vars

\* C12: a sample with anomaly_count > total_requests is rejected, so none is
\* ever stored and no stored sample has normal_count < 0.
InvalidSampleRejected ==
    \A k \in DOMAIN traffic_stats :
        /\ traffic_stats[k].anomaly_count <= traffic_stats[k].total_requests
        /\ traffic_stats[k].normal_count >= 0

\* C13: the new_anomaly message of a broadcast that has ended reached, exactly
\* once, every observer that was live when the broadcast began and whose peer
\* is still there; and a completed cycle that polled the single record recA
\* into an empty aggregator leaves total_anomalies = 1, protocol_distribution
\* = {TCP: 1} and ip_stats["1.2.3.4"].count = 1.
DiscreteEventPush ==
    /\ lastB.ended =>
          \A o \in Range(lastB.live0) :
              (o \notin lastB.failed /\ ~broken[o]) =>
                  Cardinality({k \in DOMAIN lastB.delivered :
                                  lastB.delivered[k] = o}) = 1
    /\ (ppc = "sleep" /\ ~cycle.failed /\ cycle.recent0 = <<recA>>
            /\ cycle.agg0 = EmptyAgg) =>
          /\ get_dashboard_stats(Agg, now).total_anomalies = 1
          /\ get_dashboard_stats(Agg, now).protocol_distribution = [TCP |-> 1]
          /\ DOMAIN ip_stats = {"1.2.3.4"}
          /\ ip_stats["1.2.3.4"].count = 1

\* --------------------------------------------------- the ranking of ip_stats
MaxIps == 11             \* distinct source addresses that are ever seen
MaxRepeats == 2          \* events from an address that was seen before
MaxLimit == 12           \* largest limit passed to a query

IpPool == <<"10.0.0.1", "10.0.0.2", "10.0.0.3", "10.0.0.4", "10.0.0.5",
            "10.0.0.6", "10.0.0.7", "10.0.0.8", "10.0.0.9", "10.0.0.10",
            "10.0.0.11", "10.0.0.12">>

\* add_anomaly for an event from src_ip
RankAdd(src_ip) ==
    /\ LET r == add_anomaly(Agg, [recA EXCEPT !.src_ip = src_ip], now)
       IN  /\ SetAgg(r.agg)
           /\ add_log' = add_log \o r.stored
    /\ UNCHANGED <<active_connections, now, obsvars, pollvars, traffic_log>>

\* an event from an address not seen before
RankAddFresh ==
    /\ Len(ip_order) < MaxIps
    /\ Len(ip_order) < Len(IpPool)
    /\ RankAdd(IpPool[Len(ip_order) + 1])

\* one more event from an address seen before
RankAddSeen ==
    /\ Len(add_log) - Len(ip_order) < MaxRepeats
    /\ \E k \in DOMAIN ip_order : RankAdd(ip_order[k])

RankSpec == Init /\ [][RankAddFresh \/ RankAddSeen]_vars

\* ips, counts: a ranking of at most limit entries of ip_stats, as the spec
\* asks for it
RankingOk(ips, counts, limit) ==
    /\ Len(ips) = Min(limit, Cardinality(DOMAIN ip_stats))
    /\ \A k \in DOMAIN ips :
          /\ ips[k] \in DOMAIN ip_stats
          /\ counts[k] = ip_stats[ips[k]].count
    /\ \A k, m \in DOMAIN ips : k # m => ips[k] # ips[m]
    /\ \A k \in 1..(Len(ips) - 1) : counts[k] >= counts[k + 1]
    /\ \A ip \in DOMAIN ip_stats \ Range(ips) :
          \A k \in DOMAIN ips : ip_stats[ip].count <= counts[k]

\* C14: top_attacking_ips holds min(10, number of addresses) entries, by count
\* non-increasing, and leaves out no address with a higher count than one it
\* includes; get_top_ips(limit) does the same with limit in place of 10.
RankingRule ==
    /\ LET top == get_dashboard_stats(Agg, now).top_attacking_ips
       IN  RankingOk([k \in DOMAIN top |-> top[k][1]],
                     [k \in DOMAIN top |-> top[k][2]], TOP_IPS)
    /\ \A limit \in 0..MaxLimit :
          LET top == get_top_ips(Agg, limit)
          IN  RankingOk([k \in DOMAIN top |-> top[k].ip],
                        [k \in DOMAIN top |-> top[k].count], limit)

\* C14 witness: eleven addresses with counts 3 and 1: top_attacking_ips holds
\* ten of them, the address seen three times first
RankingCutsAtTen ==
    /\ Len(ip_order) = TOP_IPS + 1
    /\ LET top == get_dashboard_stats(Agg, now).top_attacking_ips
       IN  /\ Len(top) = TOP_IPS
           /\ top[1] = <<IpPool[5], 3>>
           /\ top[TOP_IPS][2] = 1

\* ------------------------------------------------- the one-hour window
MaxClock == 61           \* the clock runs from 0 to MaxClock minutes
MaxWindowAdds == 2       \* events ingested while the clock runs

\* a minute passes
ClockTick ==
    /\ now < MaxClock
    /\ now' = now + 1
    /\ UNCHANGED <<active_connections, aggvars, obsvars, pollvars, add_log,
                   traffic_log>>

\* add_anomaly at the present minute; the event carries the minute of its
\* ingestion as its score, so that its age can be read without its timestamp
WindowAdd ==
    /\ Len(anomaly_history) < MaxWindowAdds
    /\ LET r == add_anomaly(Agg, [recA EXCEPT !.score = now], now)
       IN  /\ SetAgg(r.agg)
           /\ add_log' = add_log \o r.stored
    /\ UNCHANGED <<active_connections, now, obsvars, pollvars, traffic_log>>

WindowSpec == Init /\ [][ClockTick \/ WindowAdd]_vars

\* the entries of anomaly_history ingested after minute t
IngestedAfter(t) ==
    {k \in DOMAIN anomaly_history : anomaly_history[k].score > t}

\* C15: at any snapshot time now, recent_anomalies_count is the number of
\* entries of anomaly_history ingested strictly after now - 1 hour (60 or 61
\* minutes ago: excluded; 59 minutes ago: included).
RecencyFilter ==
    get_dashboard_stats(Agg, now).recent_anomalies_count
        = Cardinality(IngestedAfter(now - HOUR))

\* C15 witness: entries ingested exactly 60 and 59 minutes before the
\* snapshot: the count is 1
HourOldExcluded ==
    /\ Len(anomaly_history) = 2
    /\ anomaly_history[1].score = now - HOUR
    /\ anomaly_history[2].score = now - HOUR + 1
    /\ get_dashboard_stats(Agg, now).recent_anomalies_count = 1

\* C16: get_recent_anomalies(limit) returns the most recent
\* min(limit, len(anomaly_history)) entries in insertion order, for every
\* limit >= 0; limit = 0 returns no entries.
RecentAnomaliesLimit ==
    \A limit \in 0..MaxLimit :
        get_recent_anomalies(Agg, limit) = LastN(anomaly_history, limit)

\* C17: among addresses with equal count, top_attacking_ips puts the one with
\* the more recent last_seen first, whatever the order in which the addresses
\* were first seen.
TieBreakByLastSeen ==
    LET top == get_dashboard_stats(Agg, now).top_attacking_ips
    IN  \A k, m \in DOMAIN top :
            (k < m /\ top[k][2] = top[m][2]) =>
                fromisoformat(ip_stats[top[k][1]].last_seen)
                    >= fromisoformat(ip_stats[top[m][1]].last_seen)

\* C18: in every step, no key leaves ip_stats, protocol_stats or hourly_stats
\* and no count decreases, also when add_anomaly evicts the oldest entry of a
\* full anomaly_history.
CountersAppendOnly ==
    [][ /\ \A ip \in DOMAIN ip_stats :
              /\ ip \in DOMAIN ip_stats'
              /\ ip_stats'[ip].count >= ip_stats[ip].count
        /\ \A p \in DOMAIN protocol_stats :
              /\ p \in DOMAIN protocol_stats'
              /\ protocol_stats'[p] >= protocol_stats[p]
        /\ \A h \in DOMAIN hourly_stats :
              /\ h \in DOMAIN hourly_stats'
              /\ hourly_stats'[h] >= hourly_stats[h] ]_vars

\* C18 witness: three entries were evicted from a full anomaly_history and
\* the counters still count every event
CountersOutliveHistory ==
    /\ Len(add_log) = ANOMALY_MAXLEN + 3
    /\ Len(anomaly_history) = ANOMALY_MAXLEN
    /\ ip_stats["1.2.3.4"].count + ip_stats["9.9.9.9"].count = ANOMALY_MAXLEN + 3
    /\ protocol_stats["TCP"] + protocol_stats["UDP"] = ANOMALY_MAXLEN + 3
    /\ hourly_stats["00:00"] = ANOMALY_MAXLEN + 3

\* the sum of the values of a table of numbers over the keys in keys
RECURSIVE SumCounts(_, _)
SumCounts(f, keys) ==
    IF keys = {} THEN 0
    ELSE LET k == CHOOSE x \in keys : TRUE
         IN  f[k] + SumCounts(f, keys \ {k})

IpCounts == [ip \in DOMAIN ip_stats |-> ip_stats[ip].count]

\* C19: in every state in which another task can compute a snapshot, the
\* counts of ip_stats, of protocol_stats and of hourly_stats each sum to the
\* number of events add_anomaly has taken in so far, and total_anomalies is
\* the minimum of that number and 1000: no event is in anomaly_history
\* without being counted.
SnapshotSeesWholeEvents ==
    /\ SumCounts(IpCounts, DOMAIN ip_stats) = Len(add_log)
    /\ SumCounts(protocol_stats, DOMAIN protocol_stats) = Len(add_log)
    /\ SumCounts(hourly_stats, DOMAIN hourly_stats) = Len(add_log)
    /\ get_dashboard_stats(Agg, now).total_anomalies
          = Min(Len(add_log), ANOMALY_MAXLEN)

\* the candidates of a response that the detector marked as anomalies
MarkedAnomalous(recent) ==
    {k \in DOMAIN recent :
        /\ IsDict(recent[k])
        /\ "result" \in DOMAIN recent[k]
        /\ recent[k]["result"] = ANOMALY_RESULT}

\* C20: a poll cycle that completed appended exactly one sample, with
\* total_requests = number of candidates + 100 and anomaly_count = number of
\* candidates whose result is -1; every sample in traffic_stats has
\* normal_count = total_requests - anomaly_count >= 0.
TrafficSampleDerivation ==
    /\ (ppc = "sleep" /\ ~cycle.failed) =>
          /\ Len(traffic_stats) = Len(cycle.agg0.traffic_stats) + 1
          /\ SubSeq(traffic_stats, 1, Len(traffic_stats) - 1)
                = cycle.agg0.traffic_stats
          /\ LET sample == traffic_stats[Len(traffic_stats)]
             IN  /\ sample.total_requests = Len(cycle.recent0) + 100
                 /\ sample.anomaly_count
                       = Cardinality(MarkedAnomalous(cycle.recent0))
    /\ \A k \in DOMAIN traffic_stats :
          /\ traffic_stats[k].normal_count
                = traffic_stats[k].total_requests - traffic_stats[k].anomaly_count
          /\ traffic_stats[k].normal_count >= 0

\* C20 witness: a completed cycle with two candidates, one of them marked
\* -1: the sample is 102 requests, 1 anomaly, 101 normal
MixedCycleSampled ==
    /\ ppc = "sleep"
    /\ ~cycle.failed
    /\ cycle.recent0 = <<recA, recB>>
    /\ traffic_stats[1].total_requests = 102
    /\ traffic_stats[1].anomaly_count = 1
    /\ traffic_stats[1].normal_count = 101

====
